---- MODULE Spec2Model ----
(***************************************************************************)
(* webhook_events: registration of event handlers on an Application, and   *)
(* the request pipeline of start_listening (signature check, PING/event    *)
(* branching, dispatch to the registered handler).                         *)
(*                                                                         *)
(* Representation.  A Python str or bytes value is a sequence of tokens    *)
(* (<<>> is the empty string, \o is concatenation); a dict is a function   *)
(* whose DOMAIN is its key set; an exception is named by its class, and    *)
(* None stands for "no exception" / Python None.                           *)
(***************************************************************************)
EXTENDS Integers, Sequences, FiniteSets, TLC

None == "None"

EmptyDict == [k \in {} |-> None]

DictSet(d, k, v) == [x \in (DOMAIN d) \cup {k} |-> IF x = k THEN v ELSE d[x]]

Values(d) == {d[k] : k \in DOMAIN d}

Last(s) == s[Len(s)]

(***************************************************************************)
(* Bounds of the model.                                                    *)
(***************************************************************************)
\* how many of the nine event types registrations and requests range over
NumEventTypes == 2

(***************************************************************************)
(* src/_internal/utils.py                                                  *)
(***************************************************************************)
\* the date, time and UTC-offset texts (offsets in minutes) a timestamp is made of
Dates == {"2025-01-01"}

Times == {"00:00:00"}

\* fromisoformat takes any one character between the date and the time
Separators == {"T", "Z"}

Offsets == ("+00:00" :> 0) @@ ("+01:00" :> 60)

\* an offset text that directly follows the date is read as a separator (its
\* sign) and the time HH:MM
OffsetAsTime == ("+00:00" :> "00:00:00") @@ ("+01:00" :> "01:00:00")

NoDatetime == [naive |-> <<>>, aware |-> FALSE, utcoffset |-> 0]

Naive(date, time) == [naive |-> <<date, time>>, aware |-> FALSE, utcoffset |-> 0]

Aware(date, time, offset) == [naive |-> <<date, time>>, aware |-> TRUE, utcoffset |-> Offsets[offset]]

\* datetime.fromisoformat: a date, optionally followed by a separator and a
\* time, optionally followed by a numeric offset; anything else is a
\* ValueError.  (A text ending in Z is such a ValueError before Python 3.11
\* and read as UTC from 3.11 on; iso_to_datetime passes no text ending in Z.)
fromisoformat(s) ==
    IF Len(s) = 0 \/ s[1] \notin Dates
    THEN [exc |-> "ValueError", value |-> NoDatetime]
    ELSE IF Len(s) = 1
    THEN [exc |-> None, value |-> Naive(s[1], "00:00:00")]
    ELSE IF Len(s) = 2 /\ s[2] \in DOMAIN OffsetAsTime
    THEN [exc |-> None, value |-> Naive(s[1], OffsetAsTime[s[2]])]
    ELSE IF Len(s) = 3 /\ s[2] \in DOMAIN OffsetAsTime /\ s[3] \in DOMAIN Offsets
    THEN [exc |-> None, value |-> Aware(s[1], OffsetAsTime[s[2]], s[3])]
    ELSE IF Len(s) = 3 /\ s[2] \in Separators /\ s[3] \in Times
    THEN [exc |-> None, value |-> Naive(s[1], s[3])]
    ELSE IF Len(s) = 4 /\ s[2] \in Separators /\ s[3] \in Times /\ s[4] \in DOMAIN Offsets
    THEN [exc |-> None, value |-> Aware(s[1], s[3], s[4])]
    ELSE [exc |-> "ValueError", value |-> NoDatetime]

\* iso_to_datetime without the rewrite of the final Z
iso_to_datetime_as_is(iso_timestamp) == fromisoformat(iso_timestamp)

iso_to_datetime(iso_timestamp) ==
    IF Len(iso_timestamp) > 0 /\ Last(iso_timestamp) = "Z"
    THEN fromisoformat(SubSeq(iso_timestamp, 1, Len(iso_timestamp) - 1) \o <<"+00:00">>)
    ELSE fromisoformat(iso_timestamp)

(***************************************************************************)
(* src/events.py                                                           *)
(***************************************************************************)
DigitVal ==
    ("0" :> 0) @@ ("1" :> 1) @@ ("2" :> 2) @@ ("3" :> 3) @@ ("4" :> 4) @@
    ("5" :> 5) @@ ("6" :> 6) @@ ("7" :> 7) @@ ("8" :> 8) @@ ("9" :> 9)

IsDigits(s) == Len(s) > 0 /\ \A i \in 1..Len(s) : s[i] \in DOMAIN DigitVal

RECURSIVE int(_)
\* Python int(str) on a decimal string
int(s) == IF Len(s) = 0 THEN 0 ELSE 10 * int(SubSeq(s, 1, Len(s) - 1)) + DigitVal[Last(s)]

\* truthiness of data.get(key) for a string-valued field
Truthy(data, key) == key \in DOMAIN data /\ data[key] # <<>>

\* class -> its bases, in the order of the class statement
Bases ==
    ("_AnyEvent" :> <<>>) @@ ("_BaseLobbyMessage" :> <<>>) @@ ("_BaseDirectMessage" :> <<>>) @@
    ("ApplicationAuthorized" :> <<"_AnyEvent">>) @@
    ("ApplicationDeauthorized" :> <<"_AnyEvent">>) @@
    ("EntitlementCreate" :> <<"_AnyEvent">>) @@
    ("LobbyMessageCreate" :> <<"_AnyEvent", "_BaseLobbyMessage">>) @@
    ("LobbyMessageUpdate" :> <<"_AnyEvent", "_BaseLobbyMessage">>) @@
    ("LobbyMessageDelete" :> <<"_AnyEvent">>) @@
    ("GameDirectMessageCreate" :> <<"_AnyEvent", "_BaseDirectMessage">>) @@
    ("GameDirectMessageUpdate" :> <<"_AnyEvent", "_BaseDirectMessage">>) @@
    ("GameDirectMessageDelete" :> <<"_AnyEvent", "_BaseDirectMessage">>) @@
    ("UserEvent" :> <<"_AnyEvent">>) @@
    ("int" :> <<>>)

\* the classes whose body has a def __init__
DefinesInit ==
    {"_AnyEvent", "_BaseLobbyMessage", "_BaseDirectMessage", "ApplicationAuthorized",
     "ApplicationDeauthorized", "EntitlementCreate", "LobbyMessageUpdate",
     "LobbyMessageDelete"}

\* method resolution order (the bases here have no bases of their own)
MRO(cls) == <<cls>> \o Bases[cls]

\* the __init__ that attribute lookup finds from position i of the MRO on
NextInit(cls, i) ==
    LET found == {j \in i..Len(MRO(cls)) : MRO(cls)[j] \in DefinesInit}
    IN  IF found = {} THEN "object"
        ELSE MRO(cls)[CHOOSE j \in found : \A k \in found : j <= k]

\* The assignments of each __init__ body, in order: [attr, key, how].
InitBody ==
    ("_AnyEvent" :> <<>>) @@
    ("object" :> <<>>) @@
    ("_BaseLobbyMessage" :> <<
        [attr |-> "id", key |-> "id", how |-> "int"],
        [attr |-> "type", key |-> "type", how |-> "item"],
        [attr |-> "content", key |-> "content", how |-> "item"],
        [attr |-> "lobby_id", key |-> "lobby_id", how |-> "int"],
        [attr |-> "channel_id", key |-> "channel_id", how |-> "int"],
        [attr |-> "author", key |-> "author", how |-> "item"],
        [attr |-> "metadata", key |-> "metadata", how |-> "get"],
        [attr |-> "flags", key |-> "flags", how |-> "item"],
        [attr |-> "application_id", key |-> "application_id", how |-> "optint"]>>) @@
    ("_BaseDirectMessage" :> <<
        [attr |-> "message_data", key |-> "", how |-> "self"]>>) @@
    ("ApplicationAuthorized" :> <<
        [attr |-> "is_guild_install", key |-> "integration_type", how |-> "eq0"],
        [attr |-> "is_user_install", key |-> "integration_type", how |-> "eq1"],
        [attr |-> "user", key |-> "user", how |-> "item"],
        [attr |-> "scopes", key |-> "scopes", how |-> "item"],
        [attr |-> "guild", key |-> "guild", how |-> "get"]>>) @@
    ("ApplicationDeauthorized" :> <<
        [attr |-> "user", key |-> "user", how |-> "item"]>>) @@
    ("EntitlementCreate" :> <<
        [attr |-> "id", key |-> "id", how |-> "int"],
        [attr |-> "sku_id", key |-> "sku_id", how |-> "int"],
        [attr |-> "application_id", key |-> "application_id", how |-> "int"],
        [attr |-> "user_id", key |-> "user_id", how |-> "optint"],
        [attr |-> "type", key |-> "type", how |-> "item"],
        [attr |-> "deleted", key |-> "deleted", how |-> "item"],
        [attr |-> "starts_at", key |-> "starts_at", how |-> "optiso"],
        [attr |-> "ends_at", key |-> "ends_at", how |-> "optiso"],
        [attr |-> "guild_id", key |-> "guild_id", how |-> "optint"],
        [attr |-> "consumed", key |-> "consumed", how |-> "get"]>>) @@
    ("LobbyMessageUpdate" :> <<
        [attr |-> "", key |-> "", how |-> "super"],
        [attr |-> "edited_at", key |-> "edited_timestamp", how |-> "iso"],
        [attr |-> "created_at", key |-> "timestamp", how |-> "iso"]>>) @@
    ("LobbyMessageDelete" :> <<
        [attr |-> "message_id", key |-> "id", how |-> "int"],
        [attr |-> "lobby_id", key |-> "lobby_id", how |-> "int"]>>)

\* The module ends with "del ... _iso_to_datetime ...": the global name the
\* constructors call is gone by the time any constructor runs.
ModuleGlobals == {}

\* One assignment of an __init__ body: the exception it raises (None when it
\* completes) and the value it assigns.
Assign(step, data) ==
    CASE step.how = "item" ->
            IF step.key \in DOMAIN data THEN [exc |-> None, val |-> data[step.key]]
            ELSE [exc |-> "KeyError", val |-> None]
      [] step.how = "int" ->
            IF step.key \notin DOMAIN data THEN [exc |-> "KeyError", val |-> None]
            ELSE IF ~IsDigits(data[step.key]) THEN [exc |-> "ValueError", val |-> None]
            ELSE [exc |-> None, val |-> int(data[step.key])]
      [] step.how = "get" ->
            [exc |-> None, val |-> IF step.key \in DOMAIN data THEN data[step.key] ELSE None]
      [] step.how = "optint" ->
            IF ~Truthy(data, step.key) THEN [exc |-> None, val |-> None]
            ELSE IF ~IsDigits(data[step.key]) THEN [exc |-> "ValueError", val |-> None]
            ELSE [exc |-> None, val |-> int(data[step.key])]
      [] step.how = "eq0" ->
            [exc |-> None, val |-> step.key \in DOMAIN data /\ data[step.key] = 0]
      [] step.how = "eq1" ->
            [exc |-> None, val |-> step.key \in DOMAIN data /\ data[step.key] = 1]
      [] step.how = "self" -> [exc |-> None, val |-> data]
      [] step.how = "optiso" ->
            IF ~Truthy(data, step.key) THEN [exc |-> None, val |-> None]
            ELSE IF "_iso_to_datetime" \notin ModuleGlobals
            THEN [exc |-> "NameError", val |-> None]
            ELSE LET t == iso_to_datetime(data[step.key])
                 IN  [exc |-> t.exc, val |-> t.value]
      [] step.how = "iso" ->
            \* the callee name is loaded before the argument data[key] is evaluated
            IF "_iso_to_datetime" \notin ModuleGlobals
            THEN [exc |-> "NameError", val |-> None]
            ELSE IF step.key \notin DOMAIN data THEN [exc |-> "KeyError", val |-> None]
            ELSE LET t == iso_to_datetime(data[step.key])
                 IN  [exc |-> t.exc, val |-> t.value]

RECURSIVE RunInit(_, _, _, _, _)
\* Runs the __init__ body of class `owner` (at position pos of cls's MRO) from
\* its step i on, on an object with attributes attrs.
RunInit(cls, owner, i, data, attrs) ==
    IF i > Len(InitBody[owner]) THEN [exc |-> None, attrs |-> attrs]
    ELSE LET step == InitBody[owner][i]
         IN  IF step.how = "super"
             THEN LET pos == CHOOSE j \in 1..Len(MRO(cls)) : MRO(cls)[j] = owner
                      up == RunInit(cls, NextInit(cls, pos + 1), 1, data, attrs)
                  IN  IF up.exc # None THEN up
                      ELSE RunInit(cls, owner, i + 1, data, up.attrs)
             ELSE LET a == Assign(step, data)
                  IN  IF a.exc # None THEN [exc |-> a.exc, attrs |-> attrs]
                      ELSE RunInit(cls, owner, i + 1, data, DictSet(attrs, step.attr, a.val))

\* event_cls(event_data): the object built, or the exception the constructor raises
Construct(cls, data) ==
    LET r == RunInit(cls, NextInit(cls, 1), 1, data, EmptyDict)
    IN  [exc |-> r.exc, cls |-> cls, attrs |-> r.attrs]

NoEvent == [exc |-> None, cls |-> None, attrs |-> EmptyDict]

(***************************************************************************)
(* src/_internal/handler.py: Application                                   *)
(***************************************************************************)
_EVENTS_MAP ==
    ("APPLICATION_AUTHORIZED" :> "ApplicationAuthorized") @@
    ("APPLICATION_DEAUTHORIZED" :> "ApplicationDeauthorized") @@
    ("ENTITLEMENT_CREATE" :> "EntitlementCreate") @@
    ("LOBBY_MESSAGE_CREATE" :> "LobbyMessageCreate") @@
    ("LOBBY_MESSAGE_UPDATE" :> "LobbyMessageUpdate") @@
    ("LOBBY_MESSAGE_DELETE" :> "LobbyMessageDelete") @@
    ("GAME_DIRECT_MESSAGE_CREATE" :> "GameDirectMessageCreate") @@
    ("GAME_DIRECT_MESSAGE_UPDATE" :> "GameDirectMessageUpdate") @@
    ("GAME_DIRECT_MESSAGE_DELETE" :> "GameDirectMessageDelete")

\* a map that files a handler under the class given, not under its wire identifier
reversed_map_identity == [c \in Values(_EVENTS_MAP) |-> c]

\* {v: k for k, v in self._EVENTS_MAP.items()}
reversed_map ==
    [c \in Values(_EVENTS_MAP) |-> CHOOSE k \in DOMAIN _EVENTS_MAP : _EVENTS_MAP[k] = c]

\* the applications constructed by the program: Application(url_path, verify_key)
Apps == {"A", "B"}

url_path == ("A" :> "/webhook1") @@ ("B" :> "/webhook2")

verify_key == ("A" :> "kA") @@ ("B" :> "kB")

\* the functions the program passes to the decorator: async def or def, and
\* the number of parameters of their signature
Funcs ==
    ("f" :> [async |-> TRUE, params |-> 2]) @@
    ("g" :> [async |-> TRUE, params |-> 2]) @@
    ("sync_fn" :> [async |-> FALSE, params |-> 2]) @@
    ("one_arg" :> [async |-> TRUE, params |-> 1])

iscoroutinefunction(func) == Funcs[func].async

\* isinstance(event_type, type) and issubclass(event_type, events._AnyEvent)
IsEventClass(event_type) ==
    /\ event_type \in DOMAIN Bases
    /\ \/ event_type = "_AnyEvent"
       \/ \E i \in 1..Len(Bases[event_type]) : Bases[event_type][i] = "_AnyEvent"

\* the duplicate check left out
AlreadyRegistered_never(event_handlers, func) == FALSE

\* func in self._event_handlers.values()
AlreadyRegistered(event_handlers, func) == func \in Values(event_handlers)

\* the decorator without its check of the parameter count
decorator_any_arity(event_handlers, event_type, func) ==
    IF ~iscoroutinefunction(func)
    THEN [exc |-> "TypeError", event_handlers |-> event_handlers]
    ELSE IF AlreadyRegistered(event_handlers, func)
    THEN [exc |-> "RuntimeError", event_handlers |-> event_handlers]
    ELSE IF event_type \notin DOMAIN reversed_map
    THEN [exc |-> "KeyError", event_handlers |-> event_handlers]
    ELSE [exc |-> None,
          event_handlers |-> DictSet(event_handlers, reversed_map[event_type], func)]

\* The decorator on_event returns, applied to func: the exception it raises
\* (None when it returns func) and the handler map it leaves.
decorator(event_handlers, event_type, func) ==
    IF ~iscoroutinefunction(func)
    THEN [exc |-> "TypeError", event_handlers |-> event_handlers]
    ELSE IF Funcs[func].params # 2
    THEN [exc |-> "TypeError", event_handlers |-> event_handlers]
    ELSE IF AlreadyRegistered(event_handlers, func)
    THEN [exc |-> "RuntimeError", event_handlers |-> event_handlers]
    ELSE IF event_type \notin DOMAIN reversed_map
    THEN [exc |-> "KeyError", event_handlers |-> event_handlers]
    ELSE [exc |-> None,
          event_handlers |-> DictSet(event_handlers, reversed_map[event_type], func)]

\* @application.on_event(event_type) applied to func
Register(event_handlers, event_type, func) ==
    IF ~IsEventClass(event_type)
    THEN [exc |-> "TypeError", event_handlers |-> event_handlers]
    ELSE decorator(event_handlers, event_type, func)

\* a lookup that takes the handler out of the map, self._event_handlers.pop
AfterLookup_pop(event_handlers, event_type) ==
    [k \in (DOMAIN event_handlers) \ {event_type} |-> event_handlers[k]]

\* the map after self._event_handlers.get(event_type): .get only reads it
AfterLookup(event_handlers, event_type) == event_handlers

\* self._event_handlers.get(event_type)
Lookup(event_handlers, event_type) ==
    IF event_type \in DOMAIN event_handlers THEN event_handlers[event_type] ELSE None

NoCall == [func |-> None, event |-> NoEvent, timestamp |-> NoDatetime]

\* a lookup by subscript, self._event_handlers[event_type], instead of .get
_dispatch_event_subscript(event_handlers, event_type, event_data, timestamp) ==
    IF event_type \notin DOMAIN event_handlers THEN [exc |-> "KeyError", call |-> NoCall]
    ELSE LET event == Construct(_EVENTS_MAP[event_type], event_data)
         IN  IF event.exc # None THEN [exc |-> event.exc, call |-> NoCall]
             ELSE [exc |-> None,
                   call |-> [func |-> event_handlers[event_type], event |-> event,
                             timestamp |-> timestamp]]

\* Application._dispatch_event up to the await of the handler: the exception
\* raised (None when none) and the handler call made (NoCall when none).
_dispatch_event(event_handlers, event_type, event_data, timestamp) ==
    LET handler == Lookup(event_handlers, event_type)
    IN  IF handler = None THEN [exc |-> None, call |-> NoCall]
        ELSE LET event == Construct(_EVENTS_MAP[event_type], event_data)
             IN  IF event.exc # None THEN [exc |-> event.exc, call |-> NoCall]
                 ELSE [exc |-> None,
                       call |-> [func |-> handler, event |-> event, timestamp |-> timestamp]]

(***************************************************************************)
(* Signatures.  Sign(k, m) is the Ed25519 signature of message m under the *)
(* private key whose public (verify) key is k, written as hex text.        *)
(***************************************************************************)
Sign(k, message) == <<"sig", k>> \o message

\* bytes.fromhex accepts the text
IsHex(text) == \A i \in 1..Len(text) : text[i] # "zz"

\* the decoded signature has crypto_sign_BYTES (64) bytes; VerifyKey.verify
\* raises nacl.exceptions.ValueError (no BadSignatureError) when it has not
HasSignatureLength(signature) == Len(signature) >= 2 /\ signature[1] = "sig"

\* a verify that never raises BadSignatureError
Verifies_always(key, message, signature) == TRUE

\* VerifyKey(key).verify(message, signature) returns (does not raise)
Verifies(key, message, signature) == signature = Sign(key, message)

\* body.decode("utf-8") succeeds
IsUtf8(body) == \A i \in 1..Len(body) : body[i] # "\\xff"

(***************************************************************************)
(* Request bodies.  A body is written with one token per JSON text:        *)
(* <<"ping">> is {"type": 0}; <<"event", T, S, D>> is {"type": 1, "event": *)
(* {"type": T, "timestamp": S, "data": D}} with the texts below for S and  *)
(* D; <<"{}">> is {}; <<"noevent">> is {"type": 1}; any other text is not  *)
(* JSON.                                                                   *)
(***************************************************************************)
TimestampTexts ==
    ("tsZ" :> <<"2025-01-01", "T", "00:00:00", "Z">>) @@
    ("tsBad" :> <<"yesterday">>)

FullData ==
    ("id" :> <<"4", "2">>) @@ ("sku_id" :> <<"7">>) @@ ("application_id" :> <<"1", "0">>) @@
    ("user_id" :> <<"5">>) @@ ("type" :> 1) @@ ("deleted" :> FALSE) @@
    ("content" :> "hi") @@ ("lobby_id" :> <<"3">>) @@ ("channel_id" :> <<"9">>) @@
    ("author" :> ("username" :> "quack")) @@ ("flags" :> 0) @@
    ("user" :> ("username" :> "quack")) @@ ("scopes" :> <<"identify">>) @@
    ("edited_timestamp" :> <<"2025-01-01", "T", "00:00:00", "Z">>) @@
    ("timestamp" :> <<"2025-01-01", "T", "00:00:00", "Z">>) @@
    ("recipient_id" :> <<"8">>)

DataTexts ==
    ("empty" :> EmptyDict) @@
    ("full" :> FullData) @@
    ("dated" :> (("starts_at" :> <<"2025-01-01", "T", "00:00:00", "Z">>) @@ FullData)) @@
    ("partial" :> ("content" :> "hi"))

json_loads(body_str) ==
    IF body_str = <<"ping">> THEN [exc |-> None, payload |-> ("type" :> 0)]
    ELSE IF body_str = <<"{}">> THEN [exc |-> None, payload |-> EmptyDict]
    ELSE IF body_str = <<"noevent">> THEN [exc |-> None, payload |-> ("type" :> 1)]
    ELSE IF /\ Len(body_str) = 4
            /\ body_str[1] = "event"
            /\ body_str[3] \in DOMAIN TimestampTexts
            /\ body_str[4] \in (DOMAIN DataTexts) \cup {"absent"}
    THEN [exc |-> None,
          payload |->
            ("type" :> 1) @@
            ("event" :>
                (("type" :> body_str[2]) @@
                 ("timestamp" :> TimestampTexts[body_str[3]]) @@
                 (IF body_str[4] = "absent" THEN EmptyDict
                  ELSE ("data" :> DataTexts[body_str[4]]))))]
    ELSE [exc |-> "JSONDecodeError", payload |-> EmptyDict]

(***************************************************************************)
(* src/_internal/handler.py: start_listening.handle_request                *)
(***************************************************************************)
\* request.headers.get(name, "")
HeadersGet(headers, name) == IF name \in DOMAIN headers THEN headers[name] ELSE <<>>

NoResponse == [status_code |-> 0, content |-> "", headers |-> EmptyDict]

Raised(exc, trace) ==
    [kind |-> "raised", exc |-> exc, response |-> NoResponse, call |-> NoCall, trace |-> trace]

Responded(status_code, content, headers, trace) ==
    [kind |-> "response", exc |-> None,
     response |-> [status_code |-> status_code, content |-> content, headers |-> headers],
     call |-> NoCall, trace |-> trace]

\* the handler started without being awaited: the 204 is returned at once
Awaiting_detached(call, trace) ==
    [kind |-> "response", exc |-> None,
     response |-> [status_code |-> 204, content |-> "", headers |-> EmptyDict],
     call |-> call, trace |-> trace]

\* await handler(event, timestamp): handle_request is suspended on the call
Awaiting(call, trace) ==
    [kind |-> "await", exc |-> None, response |-> NoResponse, call |-> call, trace |-> trace]

\* Response(status_code=401, content="invalid request signature")
Unauthorized(trace) == Responded(401, "invalid request signature", EmptyDict, trace)

\* the PING answer without its Content-Type header
PingResponse_plain(trace) == Responded(204, "", EmptyDict, trace)

\* Response(status_code=204, headers={"Content-Type": "application/json"})
PingResponse(trace) == Responded(204, "", ("Content-Type" :> "application/json"), trace)

\* Response(status_code=204)
NoContent(trace) == Responded(204, "", EmptyDict, trace)

\* an emptiness test that never fires
IsEmptyData_never(data) == FALSE

\* not data
IsEmptyData(data) == DOMAIN data = {}

\* Lines 185-206, from the parsed payload to the handler's await.
Route(payload, event_handlers, trace) ==
    IF "type" \notin DOMAIN payload THEN Raised("KeyError", trace)
    ELSE IF payload["type"] = 0 THEN PingResponse(trace)
    ELSE IF "event" \notin DOMAIN payload THEN Raised("KeyError", trace)
    ELSE LET event == payload["event"]
         IN  IF "type" \notin DOMAIN event THEN Raised("KeyError", trace)
             ELSE LET event_type == event["type"]
                      data == IF "data" \in DOMAIN event THEN event["data"] ELSE EmptyDict
                  IN  IF IsEmptyData(data) THEN NoContent(trace)
                      ELSE IF "timestamp" \notin DOMAIN event THEN Raised("KeyError", trace)
                      ELSE LET timestamp == iso_to_datetime(event["timestamp"])
                               trace2 == Append(trace, "iso_to_datetime")
                           IN  IF timestamp.exc # None THEN Raised(timestamp.exc, trace2)
                               ELSE LET d == _dispatch_event(event_handlers, event_type,
                                                             data, timestamp.value)
                                    IN  IF d.exc # None THEN Raised(d.exc, trace2)
                                        ELSE IF d.call.func = None THEN NoContent(trace2)
                                        ELSE Awaiting(d.call, Append(trace2, "handler"))

\* Lines 169-181: the signature check.  "ok", "401", or the exception raised.
CheckSignature(key, req_signature, req_timestamp, body_str) ==
    IF req_signature # <<>> /\ req_timestamp # <<>>
    THEN IF ~IsHex(req_signature) THEN "ValueError"
         ELSE IF ~HasSignatureLength(req_signature) THEN "ValueError"
         ELSE IF ~Verifies(key, req_timestamp \o body_str, req_signature) THEN "401"
         ELSE "ok"
    ELSE "401"

\* handle_request(request, application), from the delivery of the body to the
\* response, the exception, or the await of the handler.  trace lists the
\* calls made: "verify" (verify_key.verify with the decoded signature),
\* "json.loads", "iso_to_datetime", "handler".
handle_request(request, key, event_handlers) ==
    IF ~IsUtf8(request.body) THEN Raised("UnicodeDecodeError", <<>>)
    ELSE LET body_str == request.body
             req_signature == HeadersGet(request.headers, "X-Signature-Ed25519")
             req_timestamp == HeadersGet(request.headers, "X-Signature-Timestamp")
             checked == CheckSignature(key, req_signature, req_timestamp, body_str)
             trace1 == IF /\ req_signature # <<>> /\ req_timestamp # <<>>
                          /\ IsHex(req_signature) /\ HasSignatureLength(req_signature)
                       THEN <<"verify">> ELSE <<>>
         IN  IF checked = "401" THEN Unauthorized(trace1)
             ELSE IF checked # "ok" THEN Raised(checked, trace1)
             ELSE LET parsed == json_loads(body_str)
                      trace == Append(trace1, "json.loads")
                  IN  IF parsed.exc # None THEN Raised(parsed.exc, trace)
                      ELSE Route(parsed.payload, event_handlers, trace)

(***************************************************************************)
(* Inputs: the registrations the program makes and the requests it gets.   *)
(***************************************************************************)
EventOrder ==
    <<"LOBBY_MESSAGE_CREATE", "ENTITLEMENT_CREATE", "LOBBY_MESSAGE_UPDATE",
      "GAME_DIRECT_MESSAGE_CREATE", "APPLICATION_AUTHORIZED", "LOBBY_MESSAGE_DELETE",
      "APPLICATION_DEAUTHORIZED", "GAME_DIRECT_MESSAGE_UPDATE",
      "GAME_DIRECT_MESSAGE_DELETE">>

UsedTypes == {EventOrder[i] : i \in 1..NumEventTypes}

\* what on_event is called with: known variants, the base class, a user
\* subclass of it, an unrelated class, and a value that is no class
Selectors ==
    {_EVENTS_MAP[w] : w \in UsedTypes} \cup {"_AnyEvent", "UserEvent", "int", "ENTITLEMENT_CREATE"}

Absent == <<"(absent)">>

HeadersOf(sig, ts) ==
    (IF sig = Absent THEN EmptyDict ELSE ("X-Signature-Ed25519" :> sig)) @@
    (IF ts = Absent THEN EmptyDict ELSE ("X-Signature-Timestamp" :> ts))

SignedTimestamp == <<"1700000000">>

\* the private keys requests are signed with: the two applications' and a stranger's
SigningKeys == {"kA", "kB", "kX"}

Bodies ==
    {<<"\\xff">>, <<"garbage">>, <<"{}">>, <<"noevent">>, <<"ping">>} \cup
    {<<"event", T, "tsZ", D>> :
        T \in UsedTypes \cup {"UNKNOWN_EVENT"}, D \in (DOMAIN DataTexts) \cup {"absent"}} \cup
    {<<"event", T, "tsBad", D>> :
        T \in UsedTypes \cup {"UNKNOWN_EVENT"}, D \in {"empty", "full"}}

\* one body of each kind, for the requests that carry no application's signature
ProbeBodies ==
    {<<"\\xff">>, <<"garbage">>, <<"ping">>, <<"event", EventOrder[1], "tsZ", "full">>}

\* both headers present, the signature made by an application's key over
\* the request's timestamp and body
SignedHeaders(body) ==
    {HeadersOf(Sign(k, SignedTimestamp \o body), SignedTimestamp) : k \in Values(verify_key)}

\* a header missing, empty or malformed, or a stranger's signature
UnsignedHeaders(body) ==
    {HeadersOf(sig, SignedTimestamp) :
        sig \in {Absent, <<>>, <<"zz">>, <<"abcd">>, Sign("kX", SignedTimestamp \o body)}} \cup
    {HeadersOf(sig, ts) :
        sig \in {Absent, <<>>, <<"zz">>} \cup {Sign(k, body) : k \in Values(verify_key)},
        ts \in {Absent, <<>>}}

RequestInputs ==
    {[path |-> p, headers |-> h[2], body |-> h[1]] :
        p \in Values(url_path),
        h \in UNION {{<<body, x>> : x \in SignedHeaders(body)} : body \in Bodies}
              \cup UNION {{<<body, x>> : x \in UnsignedHeaders(body)} : body \in ProbeBodies}}

\* what an awaited handler does: return, raise, or never complete
HandlerBehaviours == {"return", "raise", "hang"}

(***************************************************************************)
(* State                                                                   *)
(***************************************************************************)
\* each request is served by a task of its own
Tasks == {"t1", "t2"}

VARIABLES
    attributes,      \* application -> its url_path and verify_key attributes
    event_handlers,  \* application -> its _event_handlers dict
    lastReg,         \* the latest on_event registration and how it ended
    listening,       \* start_listening has been called
    applications,    \* the applications list start_listening was given
    routes,          \* url path -> the application its listener is bound to
    pc,              \* task -> "idle", "body", "handler", "done"
    request,         \* task -> the request it serves
    target,          \* task -> the application its listener passes on
    outcome,         \* task -> what handle_request has produced so far
    behaviour,       \* task -> what the handler awaited by the task does
    iso_timestamp,   \* the text before the suffix of a timestamp given to the codec
    converted        \* what the codec returned for that text and its suffixed forms

vars ==
    <<attributes, event_handlers, lastReg, listening, applications, routes, pc, request,
      target, outcome, behaviour, iso_timestamp, converted>>

codec == <<iso_timestamp, converted>>

NoResult == [exc |-> None, value |-> NoDatetime]

NotConverted == [done |-> FALSE, plain |-> NoResult, z |-> NoResult, utc |-> NoResult]

NoReg ==
    [app |-> None, event_type |-> None, func |-> None, exc |-> None, before |-> EmptyDict,
     returned |-> FALSE]

NoRequest == [path |-> None, headers |-> EmptyDict, body |-> <<>>]

NoOutcome ==
    [kind |-> "none", exc |-> None, response |-> NoResponse, call |-> NoCall, trace |-> <<>>]

\* the applications are constructed, nothing is registered, nothing listens
InitApplications ==
    /\ attributes = [a \in Apps |-> [url_path |-> url_path[a], verify_key |-> verify_key[a]]]
    /\ event_handlers = [a \in Apps |-> EmptyDict]
    /\ lastReg = NoReg
    /\ listening = FALSE
    /\ applications = <<>>
    /\ routes = EmptyDict
    /\ pc = [t \in Tasks |-> "idle"]
    /\ request = [t \in Tasks |-> NoRequest]
    /\ target = [t \in Tasks |-> None]
    /\ outcome = [t \in Tasks |-> NoOutcome]
    /\ behaviour = [t \in Tasks |-> None]

Init ==
    /\ InitApplications
    /\ iso_timestamp = <<>>
    /\ converted = NotConverted

(***************************************************************************)
(* Actions                                                                 *)
(***************************************************************************)
\* one dict made in the class body and shared by every instance
SetHandlers_shared(handlers, a, m) == [b \in DOMAIN handlers |-> m]

\* self._event_handlers is a dict made per instance in __init__: a write
\* through application a lands in a's map only
SetHandlers(handlers, a, m) == [handlers EXCEPT ![a] = m]

\* @a.on_event(event_type) applied to func, before start_listening
on_event(a, event_type, func) ==
    /\ ~listening
    /\ LET r == Register(event_handlers[a], event_type, func)
       IN  /\ event_handlers' = SetHandlers(event_handlers, a, r.event_handlers)
           /\ lastReg' = [app |-> a, event_type |-> event_type, func |-> func,
                          exc |-> r.exc, before |-> event_handlers[a],
                          returned |-> TRUE]
    /\ UNCHANGED <<listening, applications, routes, pc, request, target, outcome, behaviour>>
    /\ UNCHANGED <<attributes, codec>>

\* a listener closing over the loop variable: every listener sees the last application
Bound_late(apps, i) == apps[Len(apps)]

\* the application the listener defined in iteration i passes to handle_request
\* (app_instance=application is evaluated when the listener is defined)
Bound(apps, i) == apps[i]

\* the routes the loop of start_listening adds; a path is served by the first
\* route added for it
Routes(apps) ==
    [p \in {attributes[apps[i]].url_path : i \in 1..Len(apps)} |->
        Bound(apps, CHOOSE i \in 1..Len(apps) :
                        /\ attributes[apps[i]].url_path = p
                        /\ \A j \in 1..Len(apps) : attributes[apps[j]].url_path = p => i <= j)]

\* start_listening(host, port, apps): registration is over, the routes exist
\* (lastReg, the record of the setup phase's latest call, is dropped)
start_listening(apps) ==
    /\ ~listening
    /\ listening' = TRUE
    /\ applications' = apps
    /\ routes' = Routes(apps)
    /\ lastReg' = NoReg
    /\ UNCHANGED <<event_handlers, pc, request, target, outcome, behaviour>>
    /\ UNCHANGED <<attributes, codec>>

\* listener(request): the server routes a POST to the listener of its path,
\* which enters handle_request and awaits request.body()
listener(t, req) ==
    /\ listening
    /\ pc[t] = "idle"
    /\ req.path \in DOMAIN routes
    /\ pc' = [pc EXCEPT ![t] = "body"]
    /\ request' = [request EXCEPT ![t] = req]
    /\ target' = [target EXCEPT ![t] = routes[req.path]]
    /\ UNCHANGED <<event_handlers, lastReg, listening, applications, routes, outcome, behaviour>>
    /\ UNCHANGED <<attributes, codec>>

\* handle_request reached _dispatch_event: the event's timestamp was read
Dispatched(req, out) ==
    /\ Len(req.body) = 4
    /\ Len(out.trace) > 0
    /\ Last(out.trace) \in {"iso_to_datetime", "handler"}
    /\ iso_to_datetime(TimestampTexts[req.body[3]]).exc = None

\* an event loop that runs an awaited handler to its end before it resumes
\* any other task
Resumable_serial(t) == pc[t] = "body" /\ \A u \in Tasks \ {t} : pc[u] # "handler"

\* handle_request is a coroutine: the loop resumes it once the body it awaits
\* has arrived, whatever the other tasks are suspended on
Resumable(t) == pc[t] = "body"

\* handle_request from the body's arrival to its response, its exception, or
\* the await of the handler
Process(t) ==
    /\ Resumable(t)
    /\ LET out == handle_request(request[t], attributes[target[t]].verify_key,
                                 event_handlers[target[t]])
       IN  /\ outcome' = [outcome EXCEPT ![t] = out]
           /\ event_handlers' =
                 [event_handlers EXCEPT ![target[t]] =
                     IF Dispatched(request[t], out) THEN AfterLookup(@, request[t].body[2])
                     ELSE @]
           /\ IF out.kind = "await"
              THEN /\ pc' = [pc EXCEPT ![t] = "handler"]
                   /\ \E b \in HandlerBehaviours : behaviour' = [behaviour EXCEPT ![t] = b]
              ELSE /\ pc' = [pc EXCEPT ![t] = "done"]
                   /\ UNCHANGED behaviour
    /\ UNCHANGED <<lastReg, listening, applications, routes, request, target>>
    /\ UNCHANGED <<attributes, codec>>

\* the awaited handler returns: lines 203-206
HandlerReturns(t) ==
    /\ pc[t] = "handler"
    /\ behaviour[t] = "return"
    /\ pc' = [pc EXCEPT ![t] = "done"]
    /\ outcome' = [outcome EXCEPT ![t] =
                      [NoContent(outcome[t].trace) EXCEPT !.call = outcome[t].call]]
    /\ UNCHANGED <<event_handlers, lastReg, listening, applications, routes, request, target,
                   behaviour>>
    /\ UNCHANGED <<attributes, codec>>

\* the awaited handler raises: nothing catches it
HandlerRaises(t) ==
    /\ pc[t] = "handler"
    /\ behaviour[t] = "raise"
    /\ pc' = [pc EXCEPT ![t] = "done"]
    /\ outcome' = [outcome EXCEPT ![t] =
                      [Raised("HandlerError", outcome[t].trace) EXCEPT !.call = outcome[t].call]]
    /\ UNCHANGED <<event_handlers, lastReg, listening, applications, routes, request, target,
                   behaviour>>
    /\ UNCHANGED <<attributes, codec>>

Register_any ==
    \E a \in Apps, event_type \in Selectors, func \in DOMAIN Funcs : on_event(a, event_type, func)

Listen_any ==
    \E apps \in {<<"A", "B">>, <<"B", "A">>} : start_listening(apps)

Request_any(t) ==
    \E req \in RequestInputs : listener(t, req)

\* one request at a time
Next ==
    \/ Register_any
    \/ Listen_any
    \/ Request_any("t1")
    \/ Process("t1")
    \/ HandlerReturns("t1")
    \/ HandlerRaises("t1")

Spec == Init /\ [][Next]_vars

(***************************************************************************)
(* The codec alone: iso_to_datetime applied to a text, to the text followed *)
(* by Z and to the text followed by +00:00.                                *)
(***************************************************************************)
\* longest text before the suffix, in tokens
MaxTsLen == 3

TimestampTokens == Dates \cup Times \cup Separators \cup DOMAIN Offsets

TimestampPrefixes == UNION {[1..n -> TimestampTokens] : n \in 0..MaxTsLen}

InitCodec ==
    /\ InitApplications
    /\ iso_timestamp \in TimestampPrefixes
    /\ converted = NotConverted

Convert ==
    /\ ~converted.done
    /\ converted' = [done |-> TRUE,
                  plain |-> iso_to_datetime(iso_timestamp),
                  z |-> iso_to_datetime(iso_timestamp \o <<"Z">>),
                  utc |-> iso_to_datetime(iso_timestamp \o <<"+00:00">>)]
    /\ UNCHANGED <<attributes, event_handlers, lastReg, listening, applications, routes, pc,
                   request, target, outcome, behaviour, iso_timestamp>>

NextCodec == Convert

SpecCodec == InitCodec /\ [][NextCodec]_vars

(***************************************************************************)
(* Two requests served concurrently.  Every coroutine of the event loop    *)
(* that can run is eventually run: a task whose body has arrived proceeds, *)
(* and a handler that returns or raises does so; request arrival is up to  *)
(* the clients, and a handler that hangs never takes a step.               *)
(***************************************************************************)
\* the setup of the concurrent runs: handlers for the first event type
ConcSelector == _EVENTS_MAP[EventOrder[1]]

\* requests that are valid for their path or signed by the other application:
\* a PING, and an event of the first type
ConcRequests ==
    {[path |-> p, headers |-> h[2], body |-> h[1]] :
        p \in Values(url_path),
        h \in UNION {{<<body, x>> : x \in SignedHeaders(body)} :
                        body \in {<<"ping">>, <<"event", EventOrder[1], "tsZ", "full">>}}}

RegisterConc ==
    \E a \in Apps, func \in {"f", "g"} : on_event(a, ConcSelector, func)

\* the steps of task t the event loop takes by itself; at most one is enabled
Resume(t) == Process(t) \/ HandlerReturns(t) \/ HandlerRaises(t)

Serve(t) ==
    \/ \E req \in ConcRequests : listener(t, req)
    \/ Resume(t)

NextConc ==
    \/ RegisterConc
    \/ Listen_any
    \/ \E t \in Tasks : Serve(t)

Fairness == \A t \in Tasks : WF_vars(Resume(t))

SpecConc == Init /\ [][NextConc]_vars /\ Fairness

(***************************************************************************)
(* Vocabulary of the properties                                            *)
(***************************************************************************)
Contains(seq, x) == \E i \in 1..Len(seq) : seq[i] = x

\* handle_request has run past the body's arrival
Processed(t) == pc[t] \in {"handler", "done"}

SigOf(t) == HeadersGet(request[t].headers, "X-Signature-Ed25519")

TsOf(t) == HeadersGet(request[t].headers, "X-Signature-Timestamp")

\* both headers are present and the signature is k's over timestamp||body
SignedBy(t, k) ==
    /\ SigOf(t) # <<>>
    /\ TsOf(t) # <<>>
    /\ SigOf(t) = Sign(k, TsOf(t) \o request[t].body)

\* the application whose url_path the request was sent to
AppOfPath(path) == CHOOSE a \in Apps : url_path[a] = path

Is401(t) ==
    /\ outcome[t].kind = "response"
    /\ outcome[t].response.status_code = 401
    /\ outcome[t].response.content = "invalid request signature"

Is204(t) ==
    /\ outcome[t].kind = "response"
    /\ outcome[t].response.status_code = 204

Invoked(t) == outcome[t].call.func # None

IsEventBody(body) == Len(body) = 4 /\ body[1] = "event"

\* the wire identifier the latest registration selected, when it selected a known variant
RegKnown == lastReg.returned /\ lastReg.event_type \in Values(_EVENTS_MAP)

RegKey == CHOOSE k \in DOMAIN _EVENTS_MAP : _EVENTS_MAP[k] = lastReg.event_type

RegRejected == lastReg.exc # None /\ event_handlers[lastReg.app] = lastReg.before

(***************************************************************************)
(* Properties                                                              *)
(***************************************************************************)
\* C1: when a handler is already registered for a known variant V, a later
\* on_event(V) of a different function is rejected with an error and the
\* first handler stays registered for V.
C1_SecondHandlerRejected ==
    (/\ RegKnown
     /\ RegKey \in DOMAIN lastReg.before
     /\ lastReg.before[RegKey] # lastReg.func)
    => (RegRejected /\ event_handlers[lastReg.app][RegKey] = lastReg.before[RegKey])

\* C2: registering a function that is currently registered under one event
\* type for a different event type is rejected with an error and changes
\* nothing, and no function is ever the handler of two event types.
C2_NoStacking ==
    /\ (/\ RegKnown
        /\ \E k \in DOMAIN lastReg.before : k # RegKey /\ lastReg.before[k] = lastReg.func)
       => RegRejected
    /\ \A a \in Apps : \A k1, k2 \in DOMAIN event_handlers[a] :
          event_handlers[a][k1] = event_handlers[a][k2] => k1 = k2

C2_Witness ==
    /\ RegKnown
    /\ \E k \in DOMAIN lastReg.before : k # RegKey /\ lastReg.before[k] = lastReg.func
    /\ lastReg.exc = "RuntimeError"
    /\ RegKey \notin DOMAIN event_handlers[lastReg.app]

\* C3: a request whose X-Signature-Ed25519 or X-Signature-Timestamp header is
\* missing or empty ends with 401 "invalid request signature" and invokes no
\* handler, whatever its body.
C3_MissingHeader401 ==
    \A t \in Tasks :
        (Processed(t) /\ (SigOf(t) = <<>> \/ TsOf(t) = <<>>))
        => (pc[t] = "done" /\ Is401(t) /\ ~Invoked(t))

C5_MalformedSignature401 ==
    \A t \in Tasks :
        (/\ Processed(t)
         /\ IsUtf8(request[t].body)
         /\ SigOf(t) # <<>>
         /\ TsOf(t) # <<>>
         /\ (~IsHex(SigOf(t)) \/ ~HasSignatureLength(SigOf(t))))
        => (pc[t] = "done" /\ Is401(t))

C7_Ping204 ==
    \A t \in Tasks :
        (/\ Processed(t)
         /\ SignedBy(t, verify_key[AppOfPath(request[t].path)])
         /\ request[t].body = <<"ping">>)
        => (/\ pc[t] = "done"
            /\ Is204(t)
            /\ outcome[t].response.headers = ("Content-Type" :> "application/json")
            /\ ~Invoked(t))

C7_Witness ==
    /\ pc["t1"] = "done"
    /\ SignedBy("t1", verify_key[AppOfPath(request["t1"].path)])
    /\ request["t1"].body = <<"ping">>
    /\ DOMAIN event_handlers[target["t1"]] = UsedTypes
    /\ Is204("t1")

\* C8: a validly signed event request whose event.data is absent or an empty
\* object is answered 204, invokes no handler even when one is registered for
\* its type, and does not parse the event timestamp.
C8_EmptyDataIgnored ==
    \A t \in Tasks :
        (/\ Processed(t)
         /\ SignedBy(t, verify_key[AppOfPath(request[t].path)])
         /\ IsEventBody(request[t].body)
         /\ request[t].body[4] \in {"absent", "empty"})
        => (/\ pc[t] = "done"
            /\ Is204(t)
            /\ ~Invoked(t)
            /\ ~Contains(outcome[t].trace, "iso_to_datetime"))

C8_Witness ==
    /\ pc["t1"] = "done"
    /\ SignedBy("t1", verify_key[AppOfPath(request["t1"].path)])
    /\ IsEventBody(request["t1"].body)
    /\ request["t1"].body[4] = "empty"
    /\ request["t1"].body[3] = "tsBad"
    /\ request["t1"].body[2] \in DOMAIN event_handlers[target["t1"]]
    /\ Is204("t1")

\* the identifier fields each variant parses from data into integers (spec, data model)
SnowflakeFields ==
    ("LobbyMessageCreate" :> {"id", "lobby_id", "channel_id"}) @@
    ("LobbyMessageUpdate" :> {"id", "lobby_id", "channel_id"}) @@
    ("EntitlementCreate" :> {"id", "sku_id", "application_id"})

\* C9: a validly signed, well-formed event request with non-empty data whose
\* type T has a registered handler h invokes h, and only h, once, with an
\* event of the variant mapped to T built from data (its identifier fields
\* the integers parsed from data) and the codec's parse of event.timestamp,
\* and is answered 204 when h returns.
C9_DispatchedOnce ==
    \A t \in Tasks :
        (/\ Processed(t)
         /\ SignedBy(t, verify_key[AppOfPath(request[t].path)])
         /\ IsEventBody(request[t].body)
         /\ request[t].body[3] = "tsZ"
         /\ request[t].body[4] \in {"full", "dated"}
         /\ request[t].body[2] \in DOMAIN event_handlers[target[t]])
        => LET T == request[t].body[2]
               data == DataTexts[request[t].body[4]]
               call == outcome[t].call
               cls == _EVENTS_MAP[T]
           IN  /\ call.func = event_handlers[target[t]][T]
               /\ call.event.cls = cls
               /\ cls \in DOMAIN SnowflakeFields =>
                     \A k \in SnowflakeFields[cls] :
                        /\ k \in DOMAIN call.event.attrs
                        /\ call.event.attrs[k] = int(data[k])
               /\ call.timestamp = iso_to_datetime(TimestampTexts["tsZ"]).value
               /\ (pc[t] = "done" /\ behaviour[t] = "return") => Is204(t)

\* C10: a validly signed event request with non-empty data and a parseable
\* timestamp whose type has no registered handler on the target application
\* (a type outside the known wire identifiers included) invokes no handler,
\* raises no error and is answered 204.
C10_NoHandler204 ==
    \A t \in Tasks :
        (/\ Processed(t)
         /\ SignedBy(t, verify_key[AppOfPath(request[t].path)])
         /\ IsEventBody(request[t].body)
         /\ request[t].body[3] = "tsZ"
         /\ request[t].body[4] \in {"full", "dated", "partial"}
         /\ request[t].body[2] \notin DOMAIN event_handlers[AppOfPath(request[t].path)])
        => (/\ pc[t] = "done"
            /\ Is204(t)
            /\ outcome[t].exc = None
            /\ ~Invoked(t))

C10_Witness ==
    /\ pc["t1"] = "done"
    /\ SignedBy("t1", verify_key[AppOfPath(request["t1"].path)])
    /\ IsEventBody(request["t1"].body)
    /\ request["t1"].body[2] = "UNKNOWN_EVENT"
    /\ request["t1"].body[3] = "tsZ"
    /\ request["t1"].body[4] = "full"
    /\ DOMAIN event_handlers[target["t1"]] = UsedTypes
    /\ Is204("t1")

\* C11: an on_event whose selector is not one of the nine known variants (a
\* non-class value, an unrelated class, _AnyEvent itself, a user-made
\* subclass) is rejected with a TypeError and registers nothing.
C11_UnknownSelectorTypeError ==
    (lastReg.returned /\ lastReg.event_type \notin Values(_EVENTS_MAP))
    => (lastReg.exc = "TypeError" /\ event_handlers[lastReg.app] = lastReg.before)

\* C12: a registration of a non-coroutine function, of a function whose
\* parameter count is not 2, of a function already registered, or with an
\* unknown selector raises, and a registration that raises leaves the
\* application's handler map as it was; a request only ever invokes a function
\* that is in the map of its application, a coroutine function of 2 parameters.
C12_RejectedLeavesMap ==
    /\ lastReg.returned =>
          /\ (\/ ~Funcs[lastReg.func].async
              \/ Funcs[lastReg.func].params # 2
              \/ lastReg.func \in Values(lastReg.before)
              \/ lastReg.event_type \notin Values(_EVENTS_MAP))
             => lastReg.exc # None
          /\ lastReg.exc # None => event_handlers[lastReg.app] = lastReg.before
    /\ \A t \in Tasks :
          Invoked(t) =>
             /\ outcome[t].call.func \in Values(event_handlers[AppOfPath(request[t].path)])
             /\ Funcs[outcome[t].call.func].async
             /\ Funcs[outcome[t].call.func].params = 2

C12_Witness ==
    /\ RegKnown
    /\ lastReg.func = "one_arg"
    /\ lastReg.exc = "TypeError"
    /\ lastReg.before # EmptyDict
    /\ event_handlers[lastReg.app] = lastReg.before

\* C13: for every text s, iso_to_datetime(s + "Z") equals
\* iso_to_datetime(s + "+00:00"), and a text that does not end in Z is parsed
\* as it is, a Z before its last position included.
C13_ZIsUtc ==
    converted.done =>
        /\ converted.z = converted.utc
        /\ (iso_timestamp = <<>> \/ Last(iso_timestamp) # "Z")
           => converted.plain = fromisoformat(iso_timestamp)
        /\ (Len(iso_timestamp) = 3 /\ iso_timestamp[1] \in Dates /\ iso_timestamp[2] = "Z"
            /\ iso_timestamp[3] \in Times)
           => /\ converted.plain = [exc |-> None, value |-> Naive(iso_timestamp[1], iso_timestamp[3])]
              /\ converted.z.exc = None /\ converted.z.value.aware /\ converted.z.value.utcoffset = 0

C13_Witness ==
    /\ converted.done
    /\ iso_timestamp = <<"2025-01-01", "Z", "00:00:00">>
    /\ converted.z = [exc |-> None, value |-> Aware("2025-01-01", "00:00:00", "+00:00")]
    /\ converted.utc = converted.z

\* the handler awaited by task t never completes
Hung(t) == pc[t] = "handler" /\ behaviour[t] = "hang"

C15_ResponseAfterHandler ==
    \A t \in Tasks :
        /\ pc[t] = "handler" => (Invoked(t) /\ outcome[t].kind = "await")
        /\ (Invoked(t) /\ outcome[t].kind = "response")
           => (pc[t] = "done" /\ behaviour[t] = "return" /\ Is204(t))
        /\ (Invoked(t) /\ pc[t] = "done" /\ behaviour[t] # "return")
           => outcome[t].kind = "raised"

C15_Witness ==
    /\ pc["t1"] = "done"
    /\ Invoked("t1")
    /\ behaviour["t1"] = "return"
    /\ Contains(outcome["t1"].trace, "handler")
    /\ Is204("t1")

\* C16: once the server listens, no step of any request (whatever its
\* outcome, however the requests interleave) changes any application's handler
\* map, url_path or verify_key, nor the routes.
C16_RequestsLeaveRegistry ==
    [][listening =>
         /\ event_handlers' = event_handlers
         /\ attributes' = attributes
         /\ routes' = routes
         /\ \A a \in Apps : /\ attributes'[a].url_path = url_path[a]
                            /\ attributes'[a].verify_key = verify_key[a]]_vars

C16_Witness ==
    /\ listening
    /\ pc["t1"] = "done" /\ pc["t2"] = "done"
    /\ Invoked("t1") /\ Is204("t1")
    /\ Is401("t2")
    /\ event_handlers[target["t1"]][request["t1"].body[2]] = outcome["t1"].call.func
    /\ attributes[target["t1"]].verify_key = verify_key[target["t1"]]

\* the keys of data that the __init__ bodies of cls and of its bases subscript
RequiredKeys(cls) ==
    UNION {{InitBody[c][i].key :
               i \in {j \in 1..Len(InitBody[c]) : InitBody[c][j].how \in {"item", "int", "iso"}}} :
           c \in {MRO(cls)[k] : k \in 1..Len(MRO(cls))} \cap DOMAIN InitBody}

\* C17: a validly signed request whose body is not JSON ends in a raised
\* error, with no response and no handler invoked; so does a validly signed
\* event request with a registered handler whose data lacks a field its
\* variant requires.
C17_MalformedPropagates ==
    \A t \in Tasks :
        /\ (/\ Processed(t)
            /\ SignedBy(t, verify_key[AppOfPath(request[t].path)])
            /\ request[t].body = <<"garbage">>)
           => (pc[t] = "done" /\ outcome[t].kind = "raised" /\ ~Invoked(t))
        /\ (/\ Processed(t)
            /\ SignedBy(t, verify_key[AppOfPath(request[t].path)])
            /\ IsEventBody(request[t].body)
            /\ request[t].body[3] = "tsZ"
            /\ request[t].body[2] \in DOMAIN event_handlers[AppOfPath(request[t].path)]
            /\ request[t].body[4] \in DOMAIN DataTexts
            /\ DataTexts[request[t].body[4]] # EmptyDict
            /\ \E k \in RequiredKeys(_EVENTS_MAP[request[t].body[2]]) :
                  k \notin DOMAIN DataTexts[request[t].body[4]])
           => (pc[t] = "done" /\ outcome[t].kind = "raised" /\ ~Invoked(t))

\* C18: in every state, after any accepted and rejected registrations, each
\* application's handler map has only known wire identifiers as keys, maps each
\* key to one registrable function, and gives no function to two keys; an
\* accepted registration files its function under the identifier of its variant.
C18_InjectiveWellKeyed ==
    /\ \A a \in Apps :
          /\ DOMAIN event_handlers[a] \subseteq DOMAIN _EVENTS_MAP
          /\ \A k \in DOMAIN event_handlers[a] :
                /\ event_handlers[a][k] \in DOMAIN Funcs
                /\ Funcs[event_handlers[a][k]].async
                /\ Funcs[event_handlers[a][k]].params = 2
          /\ Cardinality(Values(event_handlers[a])) = Cardinality(DOMAIN event_handlers[a])
    /\ (lastReg.returned /\ lastReg.exc = None)
       => /\ RegKnown
          /\ event_handlers[lastReg.app] = DictSet(lastReg.before, RegKey, lastReg.func)

C18_Witness ==
    /\ lastReg.returned
    /\ lastReg.exc # None
    /\ \E a \in Apps :
          /\ Cardinality(DOMAIN event_handlers[a]) = 2
          /\ Values(event_handlers[a]) = {"f", "g"}

\* C19: a step changes the handler map of an application only when it is a
\* registration on that application, and a request that invokes a handler
\* invokes the one registered for its event type on the application of its
\* path, whatever the other application has registered for that type.
C19_PerApplicationRegistry ==
    /\ [][\A b \in Apps :
            event_handlers'[b] # event_handlers[b]
            => (lastReg'.returned /\ lastReg'.app = b /\ lastReg'.exc = None)]_vars
    /\ [](\A t \in Tasks :
            Invoked(t) =>
               /\ IsEventBody(request[t].body)
               /\ request[t].body[2] \in DOMAIN event_handlers[AppOfPath(request[t].path)]
               /\ outcome[t].call.func
                     = event_handlers[AppOfPath(request[t].path)][request[t].body[2]])

C19_Witness ==
    /\ pc["t1"] = "done"
    /\ request["t1"].path = url_path["B"]
    /\ IsEventBody(request["t1"].body)
    /\ request["t1"].body[2] \in DOMAIN event_handlers["A"]
    /\ request["t1"].body[2] \in DOMAIN event_handlers["B"]
    /\ event_handlers["A"][request["t1"].body[2]] = "f"
    /\ event_handlers["B"][request["t1"].body[2]] = "g"
    /\ outcome["t1"].call.func = "g"

====
